---- MODULE Spec2Model ----
(***************************************************************************)
(* Delivery-quantity validation service (validation_service/function_app.py *)
(* with validation_service/ai_agent.py).                                    *)
(*                                                                          *)
(* Document text is a sequence of tokens: one token per character for      *)
(* digits, punctuation and whitespace, and one token per label word (a run  *)
(* of letters).  Quantities are decimal numbers written as integers in      *)
(* units of 10^-FracDigits; None is written Null.                           *)
(***************************************************************************)
EXTENDS Integers, Naturals, Sequences, FiniteSets, TLC

\* ------------------------------------------------------------------------
\* Bounds of the model
\* ------------------------------------------------------------------------
\* longest document, in fragments, of the text-functions specification
MaxFrags == 4
\* longest document, in fragments, a validate request is run on
MaxReqFrags == 3
\* longest document, in fragments, of the specification from the scorer on
MaxScorerFrags == 1

\* decimal digits kept after the point (the documents and entered
\* quantities of the model never need more)
FracDigits == 5
Scale == 10 ^ FracDigits

\* Python's None
Null == -1

\* ------------------------------------------------------------------------
\* Characters
\* ------------------------------------------------------------------------
DigitChars == <<"0", "1", "2", "3", "4", "5", "6", "7", "8", "9">>
Digits == {DigitChars[n] : n \in 1..10}
DigitVal(c) == (CHOOSE n \in 1..10 : DigitChars[n] = c) - 1

\* \s : the space and the newline
Spaces == {" ", "NL"}
\* the three Unicode dashes U+2013, U+2014, U+2012
UniDashes == {"ENDASH", "EMDASH", "FIGDASH"}
\* runs of letters
Words == {"WEIGHT", "WT", "OF", "CARGO", "DISCHARGED", "QTY", "QUANTITY",
          "VALUE", "VOL", "VOLUME", "TOTAL", "NET", "GROSS", "DELIVERED",
          "MT"}
\* \w
WordChars == Digits \cup Words

CharAt(t, p) == IF p \in 1..Len(t) THEN t[p] ELSE "EOT"
IsDigitAt(t, p) == CharAt(t, p) \in Digits
\* \b between positions p-1 and p
Boundary(t, p) == (CharAt(t, p - 1) \in WordChars) # (CharAt(t, p) \in WordChars)

Min(S) == CHOOSE x \in S : \A y \in S : x <= y
Max(S) == CHOOSE x \in S : \A y \in S : x >= y

RECURSIVE Without(_, _)
\* str.replace(c, '') for every c in drop
Without(s, drop) ==
  IF s = <<>> THEN <<>>
  ELSE IF Head(s) \in drop THEN Without(Tail(s), drop)
       ELSE <<Head(s)>> \o Without(Tail(s), drop)

\* ------------------------------------------------------------------------
\* float(str)
\* ------------------------------------------------------------------------
RECURSIVE DigitsValue(_)
DigitsValue(s) ==
  IF s = <<>> THEN 0 ELSE DigitsValue(SubSeq(s, 1, Len(s) - 1)) * 10 + DigitVal(s[Len(s)])

\* float(s): Null stands for ValueError.  A string of digits with at most
\* one point parses; anything else (a second point, an inner newline) does
\* not.
ParseFloat(s) ==
  LET dots == {p \in 1..Len(s) : s[p] = "."}
      ok == /\ \A p \in 1..Len(s) : s[p] \in Digits \cup {"."}
            /\ Cardinality(dots) <= 1
            /\ \E p \in 1..Len(s) : s[p] \in Digits
      dot == IF dots = {} THEN Len(s) + 1 ELSE Min(dots)
      ip == SubSeq(s, 1, dot - 1)
      fp == SubSeq(s, dot + 1, Len(s))
      fpad == IF Len(fp) >= FracDigits THEN SubSeq(fp, 1, FracDigits) ELSE fp
  IN IF ~ok THEN Null
     ELSE DigitsValue(ip) * Scale + DigitsValue(fpad) * (10 ^ (FracDigits - Len(fpad)))

\* ------------------------------------------------------------------------
\* extract_cargo_discharged_weight
\* ------------------------------------------------------------------------
RECURSIVE CollapseWs(_)
\* re.sub(r'\s+', ' ', t)
CollapseWs(t) ==
  IF t = <<>> THEN <<>>
  ELSE IF Head(t) \in Spaces
       THEN IF Len(t) > 1 /\ t[2] \in Spaces THEN CollapseWs(Tail(t))
            ELSE <<" ">> \o CollapseWs(Tail(t))
       ELSE <<Head(t)>> \o CollapseWs(Tail(t))

\* the two re.sub calls that produce `normalised`
normalised(text) ==
  CollapseWs([p \in 1..Len(text) |-> IF text[p] \in UniDashes THEN "-" ELSE text[p]])

\* atoms of the label part of a pattern
Tok(S) == [k |-> "tok", s |-> S]
Opt(S) == [k |-> "opt", s |-> S]
OptWs(S) == [k |-> "optws", s |-> S]
Ws == [k |-> "ws", s |-> {}]
Sep == Opt({":", "-", "="})
Qual == {"WEIGHT", "WT", "QTY", "QUANTITY", "VALUE"}

\* the label parts of `patterns`, in list order; each is followed by NUM
patterns == <<
  <<Tok({"WEIGHT", "WT"}), Opt({"."}), Ws, OptWs({"OF"}), Tok({"CARGO"}), Ws,
    Tok({"DISCHARGED"}), Ws, Sep, Ws>>,
  <<Tok({"CARGO"}), Ws, Tok({"DISCHARGED"}), Ws, Tok(Qual \cup {"VOL", "VOLUME"}),
    Opt({"."}), Ws, Sep, Ws>>,
  <<Tok({"DISCHARGED"}), Ws, Tok(Qual \cup {"CARGO"}), Opt({"."}), Ws, Sep, Ws>>,
  <<Tok(Qual), Ws, OptWs({"OF"}), OptWs({"CARGO"}), Tok({"DISCHARGED"}), Ws, Sep, Ws>>,
  <<Tok({"QUANTITY", "QTY"}), Ws, Tok({"DISCHARGED"}), Ws, Sep, Ws>>,
  <<Tok({"TOTAL", "NET", "GROSS"}), Ws, OptWs({"CARGO"}), Tok({"DISCHARGED"}), Ws, Sep, Ws>>,
  <<Tok({"DISCHARGED"}), Ws, Sep, Ws>>,
  <<Tok({"DELIVERED"}), Ws, Tok(Qual), Opt({"."}), Ws, Sep, Ws>>
>>

RECURSIVE SkipWs(_, _)
\* \s* : greedy; nothing after it in a pattern starts with whitespace
SkipWs(t, p) == IF CharAt(t, p) \in Spaces THEN SkipWs(t, p + 1) ELSE p

RECURSIVE MatchAtoms(_, _, _)
\* the position after the label part matched at p, 0 when it does not
\* match.  Neighbouring atoms accept disjoint characters, so the greedy
\* choice is the only one that can succeed.
MatchAtoms(atoms, t, p) ==
  IF atoms = <<>> THEN p
  ELSE LET a == Head(atoms)
           hit == CharAt(t, p) \in a.s
       IN CASE a.k = "ws" -> MatchAtoms(Tail(atoms), t, SkipWs(t, p))
            [] a.k = "tok" -> IF hit THEN MatchAtoms(Tail(atoms), t, p + 1) ELSE 0
            [] a.k = "opt" -> MatchAtoms(Tail(atoms), t, IF hit THEN p + 1 ELSE p)
            [] a.k = "optws" ->
                 MatchAtoms(Tail(atoms), t, IF hit THEN SkipWs(t, p + 1) ELSE p)

\* NUM = ([\d][\d,\.\s]*\d|\d+) at position p: the last position of the
\* capture, 0 when p is not a digit.  The greedy class run is cut back to
\* its last digit; a lone digit is the \d+ alternative.
NumClass == Digits \cup {",", "."} \cup Spaces
NUM(t, p) ==
  IF ~IsDigitAt(t, p) THEN 0
  ELSE LET run == Max({j \in p..Len(t) : \A k \in p..j : t[k] \in NumClass})
       IN Max({j \in p..run : t[j] \in Digits})

\* where the label part of pat, matched at p, hands over to NUM (0: no match)
NumStart(pat, t, p) ==
  LET q == MatchAtoms(pat, t, p) IN IF q # 0 /\ NUM(t, q) # 0 THEN q ELSE 0

\* re.search(pat, t).start(): the leftmost position the pattern matches at,
\* 0 when it matches nowhere
SearchStart(pat, t) ==
  LET starts == {p \in 1..Len(t) : NumStart(pat, t, p) # 0}
  IN IF starts = {} THEN 0 ELSE Min(starts)

\* re.search(pat, t).group(1): <<>> when the pattern matches nowhere
Search(pat, t) ==
  LET p == SearchStart(pat, t)
  IN IF p = 0 THEN <<>>
     ELSE SubSeq(t, NumStart(pat, t, p), NUM(t, NumStart(pat, t, p)))

\* float(m.group(1).replace(',', '').replace(' ', '')) of pattern i,
\* Null when the pattern does not match or the capture does not parse
PatternValue(i, t) ==
  LET g == Search(patterns[i], t)
  IN IF g = <<>> THEN Null ELSE ParseFloat(Without(g, {",", " "}))

RECURSIVE ForPatternsLast(_, _)
\* the loop without its return: the last pattern with a number wins
ForPatternsLast(i, t) ==
  IF i > Len(patterns) THEN Null
  ELSE IF ForPatternsLast(i + 1, t) # Null THEN ForPatternsLast(i + 1, t)
       ELSE PatternValue(i, t)

RECURSIVE ForPatternsStop(_, _)
\* the loop with `return None` in its except clause: the first pattern that
\* matches decides
ForPatternsStop(i, t) ==
  IF i > Len(patterns) THEN Null
  ELSE IF Search(patterns[i], t) # <<>> THEN PatternValue(i, t)
       ELSE ForPatternsStop(i + 1, t)

RECURSIVE ForPatterns(_, _)
\* the loop `for pat in patterns` from pattern i on
ForPatterns(i, t) ==
  IF i > Len(patterns) THEN Null
  ELSE IF PatternValue(i, t) # Null THEN PatternValue(i, t)
       ELSE ForPatterns(i + 1, t)

extract_cargo_discharged_weight(text) == ForPatterns(1, normalised(text))

\* ------------------------------------------------------------------------
\* extract_quantities_from_text
\* ------------------------------------------------------------------------
Dig3(t, p) == IsDigitAt(t, p) /\ IsDigitAt(t, p + 1) /\ IsDigitAt(t, p + 2)

RECURSIVE DigitRunEnd(_, _)
DigitRunEnd(t, p) == IF IsDigitAt(t, p + 1) THEN DigitRunEnd(t, p + 1) ELSE p

\* (?:\.\d+)?\b from position p: last position of the match, 0 on failure.
\* A shorter fraction is followed by a digit, so only the whole digit run
\* can meet the \b.
FracEnd(t, p) ==
  LET fe == IF CharAt(t, p) = "." /\ IsDigitAt(t, p + 1) THEN DigitRunEnd(t, p + 1) ELSE 0
  IN IF fe # 0 /\ Boundary(t, fe + 1) THEN fe
     ELSE IF Boundary(t, p) THEN p - 1 ELSE 0

RECURSIVE Groups(_, _)
\* (?:[,\s]?\d{3})*(?:\.\d+)?\b from position p, in backtracking order:
\* one more group with a separator, one more group without, no more group
Groups(t, p) ==
  LET sep == IF CharAt(t, p) \in {","} \cup Spaces /\ Dig3(t, p + 1)
             THEN Groups(t, p + 4) ELSE 0
      nosep == IF Dig3(t, p) THEN Groups(t, p + 3) ELSE 0
  IN IF sep # 0 THEN sep ELSE IF nosep # 0 THEN nosep ELSE FracEnd(t, p)

\* \b\d{1,3}(?:[,\s]?\d{3})*(?:\.\d+)?\b at position p
PatternEnd(t, p) ==
  IF ~(IsDigitAt(t, p) /\ Boundary(t, p)) THEN 0
  ELSE LET d3 == IF Dig3(t, p) THEN Groups(t, p + 3) ELSE 0
           d2 == IF IsDigitAt(t, p + 1) THEN Groups(t, p + 2) ELSE 0
       IN IF d3 # 0 THEN d3 ELSE IF d2 # 0 THEN d2 ELSE Groups(t, p + 1)

RECURSIVE FindAll(_, _)
\* re.findall(pattern, text) from position p
FindAll(t, p) ==
  IF p > Len(t) THEN <<>>
  ELSE LET e == PatternEnd(t, p)
       IN IF e # 0 THEN <<SubSeq(t, p, e)>> \o FindAll(t, e + 1)
          ELSE FindAll(t, p + 1)

RECURSIVE QuantitiesDistinct(_)
\* a loop that keeps one occurrence of every value
QuantitiesDistinct(ms) ==
  IF ms = <<>> THEN <<>>
  ELSE LET v == ParseFloat(Without(Head(ms), {",", " "}))
           rest == QuantitiesDistinct(Tail(ms))
       IN (IF v = Null \/ \E i \in 1..Len(rest) : rest[i] = v THEN <<>> ELSE <<v>>) \o rest

RECURSIVE Quantities(_)
\* the loop over the matches: parse, drop on ValueError
Quantities(ms) ==
  IF ms = <<>> THEN <<>>
  ELSE LET v == ParseFloat(Without(Head(ms), {",", " "}))
       IN (IF v = Null THEN <<>> ELSE <<v>>) \o Quantities(Tail(ms))

extract_quantities_from_text(text) == Quantities(FindAll(text, 1))

\* ------------------------------------------------------------------------
\* Double-precision arithmetic of abs(a - b) < 0.01
\* ------------------------------------------------------------------------
\* Natural numbers of any size are sequences of limbs in base 2^LimbBits,
\* least significant first, without a leading zero limb.  A double is
\* [m, e] with value m * 2^e and a 53-bit m; zero has m = <<>>.
MantBits == 53
LimbBits == 13
Base == 2 ^ LimbBits

RECURSIVE ToBig(_)
ToBig(n) == IF n = 0 THEN <<>> ELSE <<n % Base>> \o ToBig(n \div Base)

RECURSIVE Trim(_)
Trim(x) == IF x # <<>> /\ x[Len(x)] = 0 THEN Trim(SubSeq(x, 1, Len(x) - 1)) ELSE x

LimbAt(x, i) == IF i \in 1..Len(x) THEN x[i] ELSE 0
\* number of bits of a small number
IntBits(n) == CHOOSE b \in 0..31 : 2 ^ b > n /\ (b = 0 \/ 2 ^ (b - 1) <= n)
BitLen(x) == IF x = <<>> THEN 0 ELSE LimbBits * (Len(x) - 1) + IntBits(x[Len(x)])

BigLess(x, y) ==
  \/ Len(x) < Len(y)
  \/ /\ Len(x) = Len(y)
     /\ \E i \in 1..Len(x) : x[i] < y[i] /\ \A j \in (i + 1)..Len(x) : x[j] = y[j]

RECURSIVE SubFrom(_, _, _, _)
\* x - y from limb i on with a borrow, for x >= y
SubFrom(x, y, i, borrow) ==
  IF i > Len(x) THEN <<>>
  ELSE LET d == x[i] - LimbAt(y, i) - borrow
       IN <<d % Base>> \o SubFrom(x, y, i + 1, IF d < 0 THEN 1 ELSE 0)
BigSub(x, y) == Trim(SubFrom(x, y, 1, 0))

RECURSIVE AddOne(_)
AddOne(x) ==
  IF x = <<>> THEN <<1>>
  ELSE IF Head(x) < Base - 1 THEN <<Head(x) + 1>> \o Tail(x)
       ELSE <<0>> \o AddOne(Tail(x))

RECURSIVE MulFrom(_, _, _, _)
\* x * c from limb i on with a carry, for a small c
MulFrom(x, c, i, carry) ==
  IF i > Len(x) THEN ToBig(carry)
  ELSE LET p == x[i] * c + carry
       IN <<p % Base>> \o MulFrom(x, c, i + 1, p \div Base)
BigMul(x, c) == Trim(MulFrom(x, c, 1, 0))

RECURSIVE DivFrom(_, _, _, _)
\* long division of the limbs i..1 of x by the small number d
DivFrom(x, d, i, rem) ==
  IF i = 0 THEN [q |-> <<>>, r |-> rem]
  ELSE LET cur == rem * Base + x[i]
           rest == DivFrom(x, d, i - 1, cur % d)
       IN [q |-> rest.q \o <<cur \div d>>, r |-> rest.r]
BigDiv(x, d) == LET qr == DivFrom(x, d, Len(x), 0) IN [q |-> Trim(qr.q), r |-> qr.r]

\* x * 2^k and floor(x / 2^k)
ShiftLeft(x, k) ==
  IF x = <<>> THEN <<>>
  ELSE [i \in 1..(k \div LimbBits) |-> 0] \o BigMul(x, 2 ^ (k % LimbBits))
ShiftRight(x, k) ==
  BigDiv(SubSeq(x, (k \div LimbBits) + 1, Len(x)), 2 ^ (k % LimbBits)).q

\* q * 2^e rounded to a double, round-half-to-even; half says whether the
\* part already discarded is above (2), at (1) or below (0) one half
RoundTo53(q, e, half) ==
  LET r == IF half = 2 \/ (half = 1 /\ q[1] % 2 = 1) THEN AddOne(q) ELSE q
  IN IF BitLen(r) > MantBits THEN [m |-> ShiftRight(r, 1), e |-> e + 1]
     ELSE [m |-> r, e |-> e]

\* float() of the decimal v / Scale
ToDouble(v) ==
  IF v = 0 THEN [m |-> <<>>, e |-> 0]
  ELSE LET n == ToBig(v)
           k0 == MantBits + IntBits(Scale) - BitLen(n)
           q0 == BigDiv(ShiftLeft(n, k0), Scale)
           k == IF BitLen(q0.q) > MantBits THEN k0 - 1 ELSE k0
           qr == IF k = k0 THEN q0 ELSE BigDiv(ShiftLeft(n, k), Scale)
           half == IF 2 * qr.r > Scale THEN 2 ELSE IF 2 * qr.r = Scale THEN 1 ELSE 0
       IN RoundTo53(qr.q, 0 - k, half)

\* abs(a - b) of two non-negative doubles
DoubleAbsDiff(a, b) ==
  LET e == IF a.e < b.e THEN a.e ELSE b.e
      xa == ShiftLeft(a.m, a.e - e)
      xb == ShiftLeft(b.m, b.e - e)
      d == IF BigLess(xa, xb) THEN BigSub(xb, xa) ELSE BigSub(xa, xb)
      s == BitLen(d) - MantBits
      q == ShiftRight(d, s)
      rest == BigSub(d, ShiftLeft(q, s))
      mid == ShiftLeft(<<1>>, s - 1)
      half == IF BigLess(rest, mid) THEN 0 ELSE IF rest = mid THEN 1 ELSE 2
  IN IF a.m = <<>> THEN b
     ELSE IF b.m = <<>> THEN a
     ELSE IF d = <<>> THEN [m |-> <<>>, e |-> 0]
     ELSE IF s <= 0 THEN [m |-> ShiftLeft(d, 0 - s), e |-> e + s]
     ELSE RoundTo53(q, e + s, half)

\* a < b for non-negative doubles
DoubleLess(a, b) ==
  IF b.m = <<>> THEN FALSE
  ELSE IF a.m = <<>> THEN TRUE
  ELSE a.e < b.e \/ (a.e = b.e /\ BigLess(a.m, b.m))

\* the tolerance test with <= in the place of <
WithinOrEqual(a, b) ==
  ~DoubleLess(ToDouble(Scale \div 100), DoubleAbsDiff(ToDouble(a), ToDouble(b)))

\* abs(a - b) < 0.01 as Python evaluates it on the doubles of a and b
Within(a, b) == DoubleLess(DoubleAbsDiff(ToDouble(a), ToDouble(b)), ToDouble(Scale \div 100))

\* ------------------------------------------------------------------------
\* Documents of the model
\* ------------------------------------------------------------------------
Frags == <<
  <<" ", "WEIGHT", " ", "OF", " ", "CARGO", " ", "DISCHARGED", ":", " ", "2">>,
  <<" ", "TOTAL", " ", "DISCHARGED", " ", "ENDASH", "NL", "1">>,
  <<" ", "1">>,
  <<".", "0", "1">>,
  <<" ", "0">>
>>

RECURSIVE Concat(_)
Concat(fs) == IF fs = <<>> THEN <<>> ELSE Frags[Head(fs)] \o Concat(Tail(fs))

FragSeqs(n) == UNION {[1..k -> 1..Len(Frags)] : k \in 0..n}
Docs(n) == {Concat(fs) : fs \in FragSeqs(n)}

\* fragments of the texts the two text functions are applied to on their own:
\* " WEIGHT OF CARGO DISCHARGED: 2", " TOTAL DISCHARGED \u2013\n1", ".01",
\* ",000 MT" and "\n000 MT" (a thousands group after a comma, after a newline)
TextFrags == <<
  <<" ", "WEIGHT", " ", "OF", " ", "CARGO", " ", "DISCHARGED", ":", " ", "2">>,
  <<" ", "TOTAL", " ", "DISCHARGED", " ", "ENDASH", "NL", "1">>,
  <<".", "0", "1">>,
  <<",", "0", "0", "0", " ", "MT">>,
  <<"NL", "0", "0", "0", " ", "MT">>
>>

RECURSIVE TextConcat(_)
TextConcat(fs) == IF fs = <<>> THEN <<>> ELSE TextFrags[Head(fs)] \o TextConcat(Tail(fs))

TextFragSeqs(n) == UNION {[1..k -> 1..Len(TextFrags)] : k \in 0..n}
TextDocs(n) == {TextConcat(fs) : fs \in TextFragSeqs(n)}

\* ------------------------------------------------------------------------
\* Inputs of the model
\* ------------------------------------------------------------------------
\* delivery_quantity values of well-formed requests: 0, 1.008, 2.0, 21.0
Entered == {0, Scale + 800, 2 * Scale, 21 * Scale}

\* request bodies: not JSON, a required field missing, a delivery_quantity
\* float() rejects, and well-formed ones
Requests ==
  {[kind |-> k, delivery_quantity |-> Null] : k \in {"nojson", "missing", "notnumber"}}
    \cup {[kind |-> "ok", delivery_quantity |-> q] : q \in Entered}

\* message.content of a completion: text that is not JSON, a JSON object
\* with is_valid in {true, false, absent}, matched_value in {null, 0, 42}
\* and confidence 150, or a JSON object whose confidence is a string
Absent == "absent"
Contents ==
  {[json |-> FALSE, is_valid |-> Absent, matched_value |-> Null,
    conf_type |-> "number", confidence |-> 0]}
    \cup {[json |-> TRUE, is_valid |-> v, matched_value |-> m,
           conf_type |-> "number", confidence |-> 150] :
            v \in {"true", "false", Absent}, m \in {Null, 0, 42 * Scale}}
    \cup {[json |-> TRUE, is_valid |-> "true", matched_value |-> Null,
           conf_type |-> "string", confidence |-> 0]}

\* no object (None where a dict or a payload is expected)
NoneObj == <<>>

\* ------------------------------------------------------------------------
\* State
\* ------------------------------------------------------------------------
VARIABLES
  pc,                   \* position of the request in validate
  request,              \* the request body
  openai_configured,    \* AZURE_OPENAI_ENDPOINT and AZURE_OPENAI_KEY are set
  delivery_quantity,    \* float(body['delivery_quantity'])
  extracted_text,
  extracted_quantities,
  cargo_weight,
  match_found,
  matched_value,
  baseline,             \* (match_found, matched_value) as the match step left them
  agent_instance,       \* _agent_instance: NoneObj or <<[enabled |-> ...]>>
  attempt,              \* loop variable of ValidationAgent.validate
  calls,                \* number of chat.completions.create calls made
  last_call,            \* how the latest create call ended
  sleeps,               \* arguments of the time.sleep calls, in order
  ai_info,              \* NoneObj or <<dict>>
  result_payload,
  result_blob,          \* content of {record_id}/processed/result.json
  response,             \* the HTTP response, NoneObj until returned
  io_log,               \* the calls made to the collaborators, in order
  threads,              \* the locals of the requests that run concurrently
  clock,                \* time.time() of the SAP simulator, in seconds
  rate_limit_store,     \* _rate_limit_store: client IP -> list of timestamps
  SAP_DB                \* SAP_DB: record_id -> record

vars == <<pc, request, openai_configured, delivery_quantity, extracted_text,
          extracted_quantities, cargo_weight, match_found, matched_value, baseline,
          agent_instance, attempt, calls, last_call, sleeps, ai_info,
          result_payload, result_blob, response, io_log, threads,
          clock, rate_limit_store, SAP_DB>>

\* what no step of a single request changes
sapVars == <<clock, rate_limit_store, SAP_DB>>
reqVars == <<request, openai_configured, threads, sapVars>>
textVars == <<extracted_text, extracted_quantities, cargo_weight>>
matchVars == <<match_found, matched_value, baseline>>
agentVars == <<agent_instance, attempt, calls, last_call, sleeps, ai_info>>
outVars == <<result_payload, result_blob, response>>

\* request.remote_addr
IPs == {"10.0.0.1", "10.0.0.2"}

\* the SAP simulator as its module leaves it: no timestamps, no records
SapIdle ==
  /\ clock = 0
  /\ rate_limit_store = [ip \in IPs |-> <<>>]
  /\ SAP_DB = <<>>

InitRest ==
  /\ delivery_quantity = Null
  /\ extracted_quantities = <<>>
  /\ cargo_weight = Null
  /\ match_found = FALSE
  /\ matched_value = Null
  /\ baseline = NoneObj
  /\ agent_instance = NoneObj
  /\ attempt = 0
  /\ calls = 0
  /\ last_call = "none"
  /\ sleeps = <<>>
  /\ ai_info = NoneObj
  /\ result_payload = NoneObj
  /\ result_blob = NoneObj
  /\ response = NoneObj
  /\ io_log = <<>>

Init ==
  /\ pc = "parse"
  /\ request \in Requests
  /\ openai_configured \in BOOLEAN
  /\ extracted_text = <<>>
  /\ threads = <<>>
  /\ SapIdle
  /\ InitRest

\* _json_response(body, status_code) of an error return
ErrorResponse(code, remarks) == <<[code |-> code, status |-> "error", remarks |-> remarks]>>

\* ------------------------------------------------------------------------
\* validate: request parsing
\* ------------------------------------------------------------------------
\* ParseRequest without the test for the required fields
ParseRequestNoFieldTest ==
  /\ pc = "parse"
  /\ IF request.kind = "nojson"
     THEN /\ response' = ErrorResponse(400, "Request body must be JSON")
          /\ pc' = "done"
          /\ UNCHANGED delivery_quantity
     ELSE IF request.kind = "notnumber"
     THEN /\ response' = ErrorResponse(400, "delivery_quantity must be a number")
          /\ pc' = "done"
          /\ UNCHANGED delivery_quantity
     ELSE /\ delivery_quantity' = IF request.kind = "missing" THEN 0
                                  ELSE request.delivery_quantity
          /\ pc' = "read"
          /\ UNCHANGED response
  /\ UNCHANGED <<reqVars, textVars, matchVars, agentVars, result_payload, result_blob,
                 io_log>>

ParseRequest ==
  /\ pc = "parse"
  /\ IF request.kind = "nojson"
     THEN /\ response' = ErrorResponse(400, "Request body must be JSON")
          /\ pc' = "done"
          /\ UNCHANGED delivery_quantity
     ELSE IF request.kind = "missing"
     THEN /\ response' = ErrorResponse(400, "Missing required fields")
          /\ pc' = "done"
          /\ UNCHANGED delivery_quantity
     ELSE IF request.kind = "notnumber"
     THEN /\ response' = ErrorResponse(400, "delivery_quantity must be a number")
          /\ pc' = "done"
          /\ UNCHANGED delivery_quantity
     ELSE /\ delivery_quantity' = request.delivery_quantity
          /\ pc' = "read"
          /\ UNCHANGED response
  /\ UNCHANGED <<reqVars, textVars, matchVars, agentVars, result_payload, result_blob,
                 io_log>>

\* ------------------------------------------------------------------------
\* validate: the document text
\* ------------------------------------------------------------------------
\* ReadBlob with a failed read tried again
ReadBlobRetry ==
  /\ pc = "read"
  /\ \E ok \in BOOLEAN : pc' = IF ok THEN "analyze" ELSE "read"
  /\ io_log' = Append(io_log, "read_blob_content")
  /\ UNCHANGED <<reqVars, delivery_quantity, textVars, matchVars, agentVars,
                 result_payload, result_blob, response>>

\* read_blob_content returns or raises; the outer except answers 500
ReadBlob ==
  /\ pc = "read"
  /\ \E ok \in BOOLEAN :
       IF ok THEN pc' = "analyze" /\ UNCHANGED response
       ELSE pc' = "done" /\ response' = ErrorResponse(500, "read_blob_content failed")
  /\ io_log' = Append(io_log, "read_blob_content")
  /\ UNCHANGED <<reqVars, delivery_quantity, textVars, matchVars, agentVars,
                 result_payload, result_blob>>

\* analyze_document returns the text of the document or raises
AnalyzeDocument ==
  /\ pc = "analyze"
  /\ \/ \E text \in Docs(MaxReqFrags) :
          /\ extracted_text' = text
          /\ pc' = "tokenize"
          /\ UNCHANGED response
     \/ /\ pc' = "done"
        /\ response' = ErrorResponse(500, "analyze_document failed")
        /\ UNCHANGED extracted_text
  /\ io_log' = Append(io_log, "analyze_document")
  /\ UNCHANGED <<reqVars, delivery_quantity, extracted_quantities, cargo_weight,
                 matchVars, agentVars, result_payload, result_blob>>

Tokenize ==
  /\ pc = "tokenize"
  /\ extracted_quantities' = extract_quantities_from_text(extracted_text)
  /\ pc' = "locate"
  /\ UNCHANGED <<reqVars, delivery_quantity, extracted_text, cargo_weight, matchVars,
                 agentVars, outVars, io_log>>

Locate ==
  /\ pc = "locate"
  /\ cargo_weight' = extract_cargo_discharged_weight(extracted_text)
  /\ pc' = "match"
  /\ UNCHANGED <<reqVars, delivery_quantity, extracted_text, extracted_quantities,
                 matchVars, agentVars, outVars, io_log>>

\* Priority1 as the variant without the targeted extraction has it: never
Priority1Skipped(cw, dq) == FALSE

\* ------------------------------------------------------------------------
\* validate: the match
\* ------------------------------------------------------------------------
\* Priority 1: the cargo discharged weight is there and within tolerance
Priority1(cw, dq) == cw # Null /\ Within(cw, dq)

RECURSIVE Priority2NoBreak(_, _)
\* Priority2 without the break: the last match wins
Priority2NoBreak(qs, dq) ==
  IF qs = <<>> THEN Null
  ELSE IF Priority2NoBreak(Tail(qs), dq) # Null THEN Priority2NoBreak(Tail(qs), dq)
       ELSE IF Within(Head(qs), dq) THEN Head(qs) ELSE Null

\* Priority2 without the tolerance test: the first quantity wins
Priority2NoTest(qs, dq) == IF qs = <<>> THEN Null ELSE Head(qs)

RECURSIVE Priority2(_, _)
\* Priority 2: the loop over extracted_quantities up to its break; Null when
\* it ends without a match
Priority2(qs, dq) ==
  IF qs = <<>> THEN Null
  ELSE IF Within(Head(qs), dq) THEN Head(qs)
       ELSE Priority2(Tail(qs), dq)

Match ==
  /\ pc = "match"
  /\ LET p1 == Priority1(cargo_weight, delivery_quantity)
         p2 == IF p1 THEN Null ELSE Priority2(extracted_quantities, delivery_quantity)
     IN /\ match_found' = (p1 \/ p2 # Null)
        /\ matched_value' = IF p1 THEN cargo_weight ELSE p2
        /\ baseline' = <<[passed |-> p1 \/ p2 # Null,
                          matched_value |-> IF p1 THEN cargo_weight ELSE p2]>>
  /\ pc' = "agent"
  /\ UNCHANGED <<reqVars, delivery_quantity, textVars, agentVars, outVars, io_log>>

\* ------------------------------------------------------------------------
\* ValidationAgent
\* ------------------------------------------------------------------------
max_retries == 2
backoff == 15

\* ValidationAgent.__init__: enabled iff endpoint and key are configured
ValidationAgent == [enabled |-> openai_configured]

\* get_validation_agent, then `if agent.enabled`
GetAgent ==
  /\ pc = "agent"
  /\ agent_instance' = IF agent_instance = NoneObj THEN <<ValidationAgent>> ELSE agent_instance
  /\ IF agent_instance'[1].enabled
     THEN pc' = "call" /\ attempt' = 0
     ELSE pc' = "build" /\ UNCHANGED attempt
  /\ UNCHANGED <<reqVars, delivery_quantity, textVars, matchVars, calls, last_call,
                 sleeps, ai_info, outVars, io_log>>

Clamp(c) == IF c > 100 THEN 100 ELSE IF c < 0 THEN 0 ELSE c

\* json.loads(content) and _process_ai_response inside the try of
\* ValidationAgent.validate: NoneObj when either raises
ProcessContent(c) ==
  IF ~c.json \/ c.conf_type # "number" THEN NoneObj
  ELSE <<[is_valid |-> (c.is_valid = "true"),
          matched_value |-> c.matched_value,
          confidence |-> Clamp(c.confidence)]>>

\* the retry test with the '429' test left out: every exception is retried
RetriesAny(has429, att) == att < max_retries

\* whether the retry loop goes round again after an exception
Retries(has429, att) == has429 /\ att < max_retries

\* ValidationAgent.validate without its outer except: the exception reaches
\* the except of the handler, which answers 500
Propagate ==
  /\ ai_info' = NoneObj
  /\ pc' = "done"
  /\ response' = ErrorResponse(500, "AI Agent validation error")

\* the outer except of ValidationAgent.validate: log, return None
ReturnNone ==
  /\ ai_info' = NoneObj
  /\ pc' = "override"
  /\ UNCHANGED response

\* one chat.completions.create call of the retry loop and what follows it:
\* the break and the processing of the response, the sleep before the next
\* attempt, or the raise that the outer except turns into None
ScorerCall ==
  /\ pc = "call"
  /\ calls' = calls + 1
  /\ io_log' = Append(io_log, "chat.completions.create")
  /\ \/ \E c \in Contents :
          /\ last_call' = "ok"
          /\ IF ProcessContent(c) = NoneObj
             THEN ReturnNone
             ELSE /\ ai_info' = ProcessContent(c)
                  /\ pc' = "override"
                  /\ UNCHANGED response
          /\ UNCHANGED <<attempt, sleeps>>
     \/ \E has429 \in BOOLEAN :
          /\ last_call' = IF has429 THEN "rate_limit" ELSE "error"
          /\ IF Retries(has429, attempt)
             THEN /\ sleeps' = Append(sleeps, backoff * (attempt + 1))
                  /\ attempt' = attempt + 1
                  /\ pc' = "call"
                  /\ UNCHANGED <<ai_info, response>>
             ELSE /\ ReturnNone
                  /\ UNCHANGED <<attempt, sleeps>>
  /\ UNCHANGED <<reqVars, delivery_quantity, textVars, matchVars, agent_instance,
                 result_payload, result_blob>>

\* ------------------------------------------------------------------------
\* validate: the result
\* ------------------------------------------------------------------------
\* match_found when the scorer can only veto a baseline match
OverrideFoundVeto(ai, mf) == IF ai # NoneObj THEN mf /\ ai[1].is_valid ELSE mf

\* match_found when a missing scorer result counts as is_valid = False
OverrideFoundStrict(ai, mf) == ai # NoneObj /\ ai[1].is_valid

\* match_found after `if ai_info:`
OverrideFound(ai, mf) == IF ai # NoneObj THEN ai[1].is_valid ELSE mf

\* matched_value as validation_service/app.py overrides it: the truthiness
\* test `if ai_validation.get('matched_value'):` lets 0 pass as no value
OverrideValueTruthy(ai, mv) ==
  IF ai # NoneObj /\ ai[1].matched_value \notin {Null, 0} THEN ai[1].matched_value ELSE mv

\* matched_value after `if ai_info:`
OverrideValue(ai, mv) ==
  IF ai # NoneObj /\ ai[1].matched_value # Null THEN ai[1].matched_value ELSE mv

Override ==
  /\ pc = "override"
  /\ match_found' = OverrideFound(ai_info, match_found)
  /\ matched_value' = OverrideValue(ai_info, matched_value)
  /\ pc' = "build"
  /\ UNCHANGED <<reqVars, delivery_quantity, textVars, baseline, agentVars, outVars, io_log>>

\* the text of remarks: what it says and the values it names
Remarks(cw, qs) ==
  IF cw # Null THEN <<"does not match Weight of Cargo Discharged", <<cw>>>>
  ELSE <<"not found in document", qs>>

\* result_payload with matched_value written in the error branch too
ResultPayloadKeepsValue(mf, mv, dq, cw, qs, ai) ==
  [status |-> IF mf THEN "success" ELSE "error", delivery_quantity |-> dq,
   matched_quantity |-> mv, cargo_discharged_weight |-> cw,
   remarks |-> IF mf THEN NoneObj ELSE Remarks(cw, qs),
   extracted_quantities |-> qs, ai_agent |-> ai]

\* result_payload
ResultPayload(mf, mv, dq, cw, qs, ai) ==
  IF mf
  THEN [status |-> "success", delivery_quantity |-> dq, matched_quantity |-> mv,
        cargo_discharged_weight |-> cw, remarks |-> NoneObj,
        extracted_quantities |-> qs, ai_agent |-> ai]
  ELSE [status |-> "error", delivery_quantity |-> dq, matched_quantity |-> Null,
        cargo_discharged_weight |-> cw, remarks |-> Remarks(cw, qs),
        extracted_quantities |-> qs, ai_agent |-> ai]

BuildResult ==
  /\ pc = "build"
  /\ result_payload' = <<ResultPayload(match_found, matched_value, delivery_quantity,
                                       cargo_weight, extracted_quantities, ai_info)>>
  /\ pc' = "write"
  /\ UNCHANGED <<reqVars, delivery_quantity, textVars, matchVars, agentVars,
                 result_blob, response, io_log>>

\* Persist with the failure of write_result_to_blob caught and passed over
PersistSwallowsFailure ==
  /\ pc = "write"
  /\ \E ok \in BOOLEAN :
       /\ result_blob' = IF ok THEN result_payload ELSE result_blob
       /\ pc' = "respond"
       /\ UNCHANGED response
  /\ io_log' = Append(io_log, "write_result_to_blob")
  /\ UNCHANGED <<reqVars, delivery_quantity, textVars, matchVars, agentVars,
                 result_payload>>

\* write_result_to_blob returns or raises; the outer except answers 500
Persist ==
  /\ pc = "write"
  /\ \E ok \in BOOLEAN :
       IF ok THEN /\ result_blob' = result_payload
                  /\ pc' = "respond"
                  /\ UNCHANGED response
       ELSE /\ pc' = "done"
            /\ response' = ErrorResponse(500, "write_result_to_blob failed")
            /\ UNCHANGED result_blob
  /\ io_log' = Append(io_log, "write_result_to_blob")
  /\ UNCHANGED <<reqVars, delivery_quantity, textVars, matchVars, agentVars,
                 result_payload>>

\* return _json_response(result_payload)
Respond ==
  /\ pc = "respond"
  /\ response' = <<[code |-> 200, status |-> result_payload[1].status,
                    remarks |-> result_payload[1].remarks,
                    payload |-> result_payload[1]]>>
  /\ pc' = "done"
  /\ UNCHANGED <<reqVars, delivery_quantity, textVars, matchVars, agentVars,
                 result_payload, result_blob, io_log>>

Next ==
  \/ ParseRequest
  \/ ReadBlob
  \/ AnalyzeDocument
  \/ Tokenize
  \/ Locate
  \/ Match
  \/ GetAgent
  \/ ScorerCall
  \/ Override
  \/ BuildResult
  \/ Persist
  \/ Respond

Spec == Init /\ [][Next]_vars

\* ------------------------------------------------------------------------
\* The text functions on their own
\* ------------------------------------------------------------------------
InitText ==
  /\ pc = "tokenize"
  /\ request = [kind |-> "ok", delivery_quantity |-> Scale]
  /\ openai_configured = FALSE
  /\ threads = <<>>
  /\ SapIdle
  /\ extracted_text \in TextDocs(MaxFrags)
  /\ InitRest

\* a further call that appends to the list the earlier call filled
RetokenizeAccumulating ==
  /\ pc = "match"
  /\ extracted_quantities' =
       extracted_quantities \o extract_quantities_from_text(extracted_text)
  /\ pc' = "retokenized"
  /\ UNCHANGED <<reqVars, delivery_quantity, extracted_text, cargo_weight, matchVars,
                 agentVars, outVars, io_log>>

\* a further call of the tokenizer on the same text, after the call of the
\* field locator
Retokenize ==
  /\ pc = "match"
  /\ extracted_quantities' = extract_quantities_from_text(extracted_text)
  /\ pc' = "retokenized"
  /\ UNCHANGED <<reqVars, delivery_quantity, extracted_text, cargo_weight, matchVars,
                 agentVars, outVars, io_log>>

NextText ==
  \/ Tokenize
  \/ Locate
  \/ Retokenize

SpecText == InitText /\ [][NextText]_vars

\* ------------------------------------------------------------------------
\* The handler from the scorer on
\* ------------------------------------------------------------------------
\* a request whose document text was obtained and matched
InitScorer ==
  /\ pc = "agent"
  /\ request \in {r \in Requests : r.kind = "ok"}
  /\ openai_configured \in BOOLEAN
  /\ delivery_quantity = request.delivery_quantity
  /\ threads = <<>>
  /\ SapIdle
  /\ extracted_text \in Docs(MaxScorerFrags)
  /\ extracted_quantities = extract_quantities_from_text(extracted_text)
  /\ cargo_weight = extract_cargo_discharged_weight(extracted_text)
  /\ LET p1 == Priority1(cargo_weight, delivery_quantity)
         p2 == IF p1 THEN Null ELSE Priority2(extracted_quantities, delivery_quantity)
     IN /\ match_found = (p1 \/ p2 # Null)
        /\ matched_value = (IF p1 THEN cargo_weight ELSE p2)
        /\ baseline = <<[passed |-> p1 \/ p2 # Null,
                         matched_value |-> IF p1 THEN cargo_weight ELSE p2]>>
  /\ agent_instance = NoneObj
  /\ attempt = 0
  /\ calls = 0
  /\ last_call = "none"
  /\ sleeps = <<>>
  /\ ai_info = NoneObj
  /\ result_payload = NoneObj
  /\ result_blob = NoneObj
  /\ response = NoneObj
  /\ io_log = <<"read_blob_content", "analyze_document">>

NextScorer ==
  \/ GetAgent
  \/ ScorerCall
  \/ Override
  \/ BuildResult
  \/ Persist
  \/ Respond

\* every step of the handler that can be taken is taken
FairSpec == InitScorer /\ [][NextScorer]_vars /\ WF_vars(NextScorer)

\* ------------------------------------------------------------------------
\* Two requests at once
\* ------------------------------------------------------------------------
\* Each request runs validate with its own locals; _agent_instance and the
\* configuration are the only state they share.  A step is the code between
\* two accesses to shared state or two calls of a collaborator.
Threads == {1, 2}
\* the documents and entered quantities of the concurrent requests
ConcTexts == {Concat(<<1>>), Concat(<<3>>)}
ConcEntered == {Scale + 800, 2 * Scale}
\* what the scorer returns to them: text that is not JSON, and objects
\* with is_valid true or false and matched_value null, 0 or 42
ConcContents == {c \in Contents : c.conf_type = "number" /\ c.is_valid # Absent}

Locals(t, q) ==
  [pc |-> "extract", text |-> t, delivery_quantity |-> q,
   extracted_quantities |-> <<>>, cargo_weight |-> Null,
   match_found |-> FALSE, matched_value |-> Null,
   agent |-> NoneObj, attempt |-> 0, returned |-> NoneObj, content |-> NoneObj,
   ai_info |-> NoneObj, result_payload |-> NoneObj, response |-> NoneObj]

InitConc ==
  /\ pc = "threads"
  /\ request = [kind |-> "ok", delivery_quantity |-> Scale]
  /\ openai_configured \in BOOLEAN
  /\ extracted_text = <<>>
  /\ threads \in [Threads -> {Locals(t, q) : t \in ConcTexts, q \in ConcEntered}]
  /\ SapIdle
  /\ InitRest

\* everything but _agent_instance and the locals of the requests
singleVars == <<pc, request, openai_configured, delivery_quantity, extracted_text,
                extracted_quantities, cargo_weight, match_found, matched_value,
                baseline, attempt, calls, last_call, sleeps, ai_info,
                result_payload, result_blob, response, io_log, sapVars>>

\* `response` of ValidationAgent.validate kept on the shared agent object
ResponseOnAgent(r) == 1

\* whose frame holds `response` of ValidationAgent.validate: it is a local
\* variable, so the frame of the calling request
ResponseOwner(r) == r

\* lines 219-241: tokenize, locate, match
CExtract(r) ==
  /\ threads[r].pc = "extract"
  /\ LET th == threads[r]
         qs == extract_quantities_from_text(th.text)
         cw == extract_cargo_discharged_weight(th.text)
         p1 == Priority1(cw, th.delivery_quantity)
         p2 == IF p1 THEN Null ELSE Priority2(qs, th.delivery_quantity)
     IN threads' = [threads EXCEPT ![r].extracted_quantities = qs,
                                   ![r].cargo_weight = cw,
                                   ![r].match_found = (p1 \/ p2 # Null),
                                   ![r].matched_value = (IF p1 THEN cw ELSE p2),
                                   ![r].pc = "agent_test"]
  /\ UNCHANGED <<singleVars, agent_instance>>

\* get_validation_agent: `if _agent_instance is None`
CAgentTest(r) ==
  /\ threads[r].pc = "agent_test"
  /\ threads' = [threads EXCEPT ![r].pc = IF agent_instance = NoneObj
                                          THEN "agent_create" ELSE "agent_return"]
  /\ UNCHANGED <<singleVars, agent_instance>>

\* get_validation_agent: `_agent_instance = ValidationAgent()`
CAgentCreate(r) ==
  /\ threads[r].pc = "agent_create"
  /\ agent_instance' = <<ValidationAgent>>
  /\ threads' = [threads EXCEPT ![r].pc = "agent_return"]
  /\ UNCHANGED singleVars

\* get_validation_agent: `return _agent_instance`, then `if agent.enabled`
CAgentReturn(r) ==
  /\ threads[r].pc = "agent_return"
  /\ threads' = [threads EXCEPT ![r].agent = agent_instance,
                                ![r].pc = IF agent_instance[1].enabled
                                          THEN "create" ELSE "build"]
  /\ UNCHANGED <<singleVars, agent_instance>>

\* one chat.completions.create call of the retry loop
CCreate(r) ==
  /\ threads[r].pc = "create"
  /\ \/ \E c \in ConcContents :
          threads' = [threads EXCEPT ![r].returned = <<c>>,
                                     ![ResponseOwner(r)].content = <<c>>,
                                     ![r].pc = "process"]
     \/ \E has429 \in BOOLEAN :
          IF Retries(has429, threads[r].attempt)
          THEN threads' = [threads EXCEPT ![r].attempt = @ + 1]
          ELSE threads' = [threads EXCEPT ![r].ai_info = NoneObj, ![r].pc = "build"]
  /\ UNCHANGED <<singleVars, agent_instance>>

\* json.loads(response.choices[0].message.content), _process_ai_response
CProcess(r) ==
  /\ threads[r].pc = "process"
  /\ threads' = [threads EXCEPT
                   ![r].ai_info = ProcessContent(threads[ResponseOwner(r)].content[1]),
                   ![r].pc = "build"]
  /\ UNCHANGED <<singleVars, agent_instance>>

\* lines 247-286: the override and the result payload
CBuild(r) ==
  /\ threads[r].pc = "build"
  /\ LET th == threads[r]
         mf == OverrideFound(th.ai_info, th.match_found)
         mv == OverrideValue(th.ai_info, th.matched_value)
     IN threads' = [threads EXCEPT
                      ![r].match_found = mf,
                      ![r].matched_value = mv,
                      ![r].result_payload =
                         <<ResultPayload(mf, mv, th.delivery_quantity, th.cargo_weight,
                                         th.extracted_quantities, th.ai_info)>>,
                      ![r].pc = "write"]
  /\ UNCHANGED <<singleVars, agent_instance>>

\* write_result_to_blob, then the response
CPersist(r) ==
  /\ threads[r].pc = "write"
  /\ \E ok \in BOOLEAN :
       threads' = [threads EXCEPT
                     ![r].response =
                        IF ok THEN <<[code |-> 200, payload |-> threads[r].result_payload[1]]>>
                        ELSE <<[code |-> 500, payload |-> NoneObj]>>,
                     ![r].pc = "done"]
  /\ UNCHANGED <<singleVars, agent_instance>>

NextConc ==
  \E r \in Threads :
     \/ CExtract(r)
     \/ CAgentTest(r)
     \/ CAgentCreate(r)
     \/ CAgentReturn(r)
     \/ CCreate(r)
     \/ CProcess(r)
     \/ CBuild(r)
     \/ CPersist(r)

SpecConc == InitConc /\ [][NextConc]_vars

\* ------------------------------------------------------------------------
\* validate of src/app.py: the upload form variant
\* ------------------------------------------------------------------------
\* a form post: without a file, with an empty file name, with a file type
\* that is not allowed, with a quantity that is not a number, or well formed
FormRequests ==
  {[kind |-> k, delivery_quantity |-> Null] :
      k \in {"nofile", "noname", "badtype", "notnumber"}}
    \cup {[kind |-> "ok", delivery_quantity |-> q] : q \in Entered}

InitForm ==
  /\ pc = "form_parse"
  /\ request \in FormRequests
  /\ openai_configured \in BOOLEAN
  /\ extracted_text = <<>>
  /\ threads = <<>>
  /\ SapIdle
  /\ InitRest

\* the checks of the upload and of the quantity, each answered 400
FormParse ==
  /\ pc = "form_parse"
  /\ IF request.kind = "nofile"
     THEN /\ response' = ErrorResponse(400, "No file uploaded")
          /\ pc' = "done"
          /\ UNCHANGED delivery_quantity
     ELSE IF request.kind = "noname"
     THEN /\ response' = ErrorResponse(400, "No file selected")
          /\ pc' = "done"
          /\ UNCHANGED delivery_quantity
     ELSE IF request.kind = "badtype"
     THEN /\ response' = ErrorResponse(400, "Invalid file type")
          /\ pc' = "done"
          /\ UNCHANGED delivery_quantity
     ELSE IF request.kind = "notnumber"
     THEN /\ response' = ErrorResponse(400, "Invalid quantity value")
          /\ pc' = "done"
          /\ UNCHANGED delivery_quantity
     ELSE /\ delivery_quantity' = request.delivery_quantity
          /\ pc' = "form_upload"
          /\ UNCHANGED response
  /\ UNCHANGED <<reqVars, textVars, matchVars, agentVars, result_payload,
                 result_blob, io_log>>

\* upload_to_blob_storage returns or raises; the outer except answers 500
FormUpload ==
  /\ pc = "form_upload"
  /\ \E ok \in BOOLEAN :
       IF ok THEN pc' = "form_analyze" /\ UNCHANGED response
       ELSE pc' = "done" /\ response' = ErrorResponse(500, "Error uploading to blob storage")
  /\ io_log' = Append(io_log, "upload_to_blob_storage")
  /\ UNCHANGED <<reqVars, delivery_quantity, textVars, matchVars, agentVars,
                 result_payload, result_blob>>

\* analyze_document_with_azure_di returns the text or raises
FormAnalyze ==
  /\ pc = "form_analyze"
  /\ \/ \E text \in Docs(MaxReqFrags) :
          /\ extracted_text' = text
          /\ pc' = "form_tokenize"
          /\ UNCHANGED response
     \/ /\ pc' = "done"
        /\ response' = ErrorResponse(500, "Error analyzing document")
        /\ UNCHANGED extracted_text
  /\ io_log' = Append(io_log, "analyze_document_with_azure_di")
  /\ UNCHANGED <<reqVars, delivery_quantity, extracted_quantities, cargo_weight,
                 matchVars, agentVars, result_payload, result_blob>>

FormTokenize ==
  /\ pc = "form_tokenize"
  /\ extracted_quantities' = extract_quantities_from_text(extracted_text)
  /\ pc' = "form_match"
  /\ UNCHANGED <<reqVars, delivery_quantity, extracted_text, cargo_weight, matchVars,
                 agentVars, outVars, io_log>>

\* the loop over extracted_quantities; this variant has no field locator
FormMatch ==
  /\ pc = "form_match"
  /\ LET p2 == Priority2(extracted_quantities, delivery_quantity)
     IN /\ match_found' = (p2 # Null)
        /\ matched_value' = p2
        /\ baseline' = <<[passed |-> p2 # Null, matched_value |-> p2]>>
  /\ pc' = "form_agent"
  /\ UNCHANGED <<reqVars, delivery_quantity, textVars, agentVars, outVars, io_log>>

\* `if AZURE_OPENAI_ENDPOINT and AZURE_OPENAI_KEY:` the module defines
\* neither name, so the test raises NameError whatever the configuration is,
\* and the outer except answers 500; the statements after the test never run
FormScorerTest ==
  /\ pc = "form_agent"
  /\ response' = ErrorResponse(500, "name 'AZURE_OPENAI_ENDPOINT' is not defined")
  /\ pc' = "done"
  /\ UNCHANGED <<reqVars, delivery_quantity, textVars, matchVars, agentVars,
                 result_payload, result_blob, io_log>>

NextForm ==
  \/ FormParse
  \/ FormUpload
  \/ FormAnalyze
  \/ FormTokenize
  \/ FormMatch
  \/ FormScorerTest

SpecForm == InitForm /\ [][NextForm]_vars

\* ------------------------------------------------------------------------
\* The SAP simulator: rate_limit
\* ------------------------------------------------------------------------
\* @rate_limit(max_requests=10, window_seconds=60)
max_requests == 10
window_seconds == 60

\* the clock advances in steps of TickSeconds, MaxTicks times at most
TickSeconds == 30
MaxTicks == 2
\* requests of one run of the rate limiter and requests handled at a time
MaxRateRequests == 11
MaxInFlight == 2

\* the locals of a request of the SAP simulator once the wrapper has read
\* client_ip and now; admitted_at is the time at which it was admitted,
\* steps are the stores and collaborators the request has called, in order,
\* earlier marks a request that was answered before the run began
SapLocals(ip, form) ==
  [pc |-> "rate_check", ip |-> ip, form |-> form, now |-> clock,
   admitted_at |-> Null, record_id |-> Null, validation_response |-> NoneObj,
   response |-> NoneObj, steps |-> <<>>, earlier |-> FALSE]

InFlight == {r \in DOMAIN threads : threads[r].pc # "done"}

\* [t for t in _rate_limit_store[client_ip] if t > now - window_seconds]
Recent(ts, now) == SelectSeq(ts, LAMBDA t : t > now - window_seconds)

\* time passes
Tick ==
  /\ clock < MaxTicks * TickSeconds
  /\ clock' = clock + TickSeconds
  /\ UNCHANGED <<pc, request, openai_configured, threads, rate_limit_store, SAP_DB,
                 delivery_quantity, textVars, matchVars, agentVars, outVars, io_log>>

\* wrapper, before the lock: client_ip = request.remote_addr; now = time.time()
RateNow(ip, form, limit) ==
  /\ Cardinality({r \in DOMAIN threads : ~threads[r].earlier}) < limit
  /\ Cardinality(InFlight) < MaxInFlight
  /\ threads' = Append(threads, SapLocals(ip, form))
  /\ UNCHANGED <<pc, request, openai_configured, sapVars, delivery_quantity,
                 textVars, matchVars, agentVars, outVars, io_log>>

\* a wrapper that records the timestamp of a request before it tests the
\* count
RateCheckRecordsAll(r) ==
  /\ threads[r].pc = "rate_check"
  /\ LET me == threads[r]
         kept == Recent(rate_limit_store[me.ip], me.now)
     IN /\ rate_limit_store' = [rate_limit_store EXCEPT ![me.ip] = Append(kept, me.now)]
        /\ IF Len(kept) >= max_requests
           THEN threads' = [threads EXCEPT ![r].pc = "done",
                                           ![r].response = <<[code |-> 429]>>]
           ELSE threads' = [threads EXCEPT ![r].pc = "handler",
                                           ![r].admitted_at = clock]
  /\ UNCHANGED <<pc, request, openai_configured, clock, SAP_DB, delivery_quantity,
                 textVars, matchVars, agentVars, outVars, io_log>>

\* wrapper, `with _rate_limit_lock:` the old timestamps are dropped, then the
\* request is answered 429 or its timestamp is appended and f is called
RateCheck(r) ==
  /\ threads[r].pc = "rate_check"
  /\ LET me == threads[r]
         kept == Recent(rate_limit_store[me.ip], me.now)
     IN IF Len(kept) >= max_requests
        THEN /\ rate_limit_store' = [rate_limit_store EXCEPT ![me.ip] = kept]
             /\ threads' = [threads EXCEPT ![r].pc = "done",
                                            ![r].response = <<[code |-> 429]>>]
        ELSE /\ rate_limit_store' =
                  [rate_limit_store EXCEPT ![me.ip] = Append(kept, me.now)]
             /\ threads' = [threads EXCEPT ![r].pc = "handler",
                                            ![r].admitted_at = clock]
  /\ UNCHANGED <<pc, request, openai_configured, clock, SAP_DB, delivery_quantity,
                 textVars, matchVars, agentVars, outVars, io_log>>

\* return f(*args, **kwargs) of any wrapped handler
Handle(r) ==
  /\ threads[r].pc = "handler"
  /\ threads' = [threads EXCEPT ![r].pc = "done", ![r].response = <<[code |-> 200]>>]
  /\ UNCHANGED <<pc, request, openai_configured, sapVars, delivery_quantity,
                 textVars, matchVars, agentVars, outVars, io_log>>

InitRate ==
  /\ pc = "rate_limit"
  /\ request = [kind |-> "ok", delivery_quantity |-> Scale]
  /\ openai_configured = FALSE
  /\ extracted_text = <<>>
  /\ threads = <<>>
  /\ SapIdle
  /\ InitRest

NextRate ==
  \/ Tick
  \/ RateNow("10.0.0.1", "ok", MaxRateRequests)
  \/ \E r \in DOMAIN threads : RateCheck(r)
  \/ \E r \in DOMAIN threads : Handle(r)

SpecRate == InitRate /\ [][NextRate]_vars

\* ------------------------------------------------------------------------
\* The SAP simulator: simulate_sap
\* ------------------------------------------------------------------------
\* requests of one run of the simulator
MaxSapRequests == 2

\* the form posted: without a file, with an empty file name, with a file type
\* that is not allowed, with a quantity that is not a number, or well formed
Forms == {"nofile", "noname", "badtype", "notnumber", "ok"}

\* what requests.post meets: no answer (a RequestException), or an answer
\* with a status code and a body that is JSON with status 'success', JSON
\* with status 'error', JSON without status, or not JSON
Replies ==
  {[code |-> 0, body |-> "unreachable"]}
    \cup [code : {200, 400, 500, 502}, body : {"success", "error", "nostatus", "nonjson"}]

\* call_validation_service: the dict it returns or the exception it raises
call_validation_service(reply) ==
  IF reply.body = "unreachable"
  THEN [raised |-> "RequestException", result |-> NoneObj]
  ELSE IF reply.body = "nonjson"
  THEN IF reply.code = 502 THEN [raised |-> "RuntimeError", result |-> NoneObj]
       ELSE IF reply.code >= 400
            THEN [raised |-> "RequestException", result |-> NoneObj]
            ELSE [raised |-> "RuntimeError", result |-> NoneObj]
  ELSE IF reply.code >= 500 THEN [raised |-> "RuntimeError", result |-> NoneObj]
  ELSE [raised |-> "none", result |-> <<[status |-> reply.body]>>]

\* jsonify(...), code of simulate_sap
SapAnswer(r, code, step) ==
  [threads EXCEPT ![r].pc = "done", ![r].response = <<[code |-> code]>>,
                  ![r].steps = IF step = "" THEN @ ELSE Append(@, step)]

\* the checks of the file and of the quantity, then _new_record_id()
SapParse(r) ==
  /\ threads[r].pc = "handler"
  /\ IF threads[r].form # "ok"
     THEN threads' = SapAnswer(r, 400, "")
     ELSE threads' = [threads EXCEPT ![r].pc = "upload", ![r].record_id = r]
  /\ UNCHANGED <<pc, request, openai_configured, sapVars, delivery_quantity,
                 textVars, matchVars, agentVars, outVars, io_log>>

\* Step 2: upload_pdf_to_blob returns or raises; `except Exception` answers 500
SapUpload(r) ==
  /\ threads[r].pc = "upload"
  /\ \E ok \in BOOLEAN :
       threads' = IF ok THEN [threads EXCEPT ![r].pc = "store",
                                             ![r].steps = Append(@, "upload_pdf_to_blob")]
                  ELSE SapAnswer(r, 500, "upload_pdf_to_blob")
  /\ UNCHANGED <<pc, request, openai_configured, sapVars, delivery_quantity,
                 textVars, matchVars, agentVars, outVars, io_log>>

\* Step 3: `with _sap_db_lock:` SAP_DB[record_id] = {...}
SapStore(r) ==
  /\ threads[r].pc = "store"
  /\ SAP_DB' = [i \in DOMAIN SAP_DB \cup {r} |->
                  IF i = r THEN [record_id |-> r, validation_status |-> "pending",
                                 validation_response |-> NoneObj]
                  ELSE SAP_DB[i]]
  /\ threads' = [threads EXCEPT ![r].pc = "call", ![r].steps = Append(@, "SAP_DB")]
  /\ UNCHANGED <<pc, request, openai_configured, clock, rate_limit_store,
                 delivery_quantity, textVars, matchVars, agentVars, outVars, io_log>>

\* Step 4: call_validation_service returns, or raises: RequestException is
\* answered 502, any other exception 500
SapCall(r) ==
  /\ threads[r].pc = "call"
  /\ \E reply \in Replies :
       LET out == call_validation_service(reply)
       IN threads' =
            IF out.raised = "none"
            THEN [threads EXCEPT ![r].pc = "update",
                                 ![r].validation_response = out.result,
                                 ![r].steps = Append(@, "call_validation_service")]
            ELSE IF out.raised = "RequestException"
                 THEN SapAnswer(r, 502, "call_validation_service")
                 ELSE SapAnswer(r, 500, "call_validation_service")
  /\ UNCHANGED <<pc, request, openai_configured, sapVars, delivery_quantity,
                 textVars, matchVars, agentVars, outVars, io_log>>

\* an update that takes every returned response for a success
SapUpdateAlways(r) ==
  /\ threads[r].pc = "update"
  /\ SAP_DB' = [SAP_DB EXCEPT
                  ![r].validation_status = "success",
                  ![r].validation_response = threads[r].validation_response]
  /\ threads' = [threads EXCEPT ![r].pc = "respond"]
  /\ UNCHANGED <<pc, request, openai_configured, clock, rate_limit_store,
                 delivery_quantity, textVars, matchVars, agentVars, outVars, io_log>>

\* Step 5: `with _sap_db_lock:` the status and the response of the record
SapUpdate(r) ==
  /\ threads[r].pc = "update"
  /\ SAP_DB' = [SAP_DB EXCEPT
                  ![r].validation_status =
                     IF threads[r].validation_response[1].status = "success"
                     THEN "success" ELSE "error",
                  ![r].validation_response = threads[r].validation_response]
  /\ threads' = [threads EXCEPT ![r].pc = "respond"]
  /\ UNCHANGED <<pc, request, openai_configured, clock, rate_limit_store,
                 delivery_quantity, textVars, matchVars, agentVars, outVars, io_log>>

\* return jsonify(result)
SapRespond(r) ==
  /\ threads[r].pc = "respond"
  /\ threads' = SapAnswer(r, 200, "")
  /\ UNCHANGED <<pc, request, openai_configured, sapVars, delivery_quantity,
                 textVars, matchVars, agentVars, outVars, io_log>>

\* a post without a file that was admitted and answered 400 at time 0
Earlier(ip) ==
  [pc |-> "done", ip |-> ip, form |-> "nofile", now |-> 0, admitted_at |-> 0,
   record_id |-> Null, validation_response |-> NoneObj,
   response |-> <<[code |-> 400]>>, steps |-> <<>>, earlier |-> TRUE]

\* the simulator after no request, or after max_requests posts without a
\* file of one client at time 0, at once or window_seconds later
InitSap ==
  /\ pc = "simulate_sap"
  /\ request = [kind |-> "ok", delivery_quantity |-> Scale]
  /\ openai_configured = FALSE
  /\ extracted_text = <<>>
  /\ SAP_DB = <<>>
  /\ \/ /\ threads = <<>>
        /\ clock = 0
        /\ rate_limit_store = [ip \in IPs |-> <<>>]
     \/ /\ threads = [i \in 1..max_requests |-> Earlier("10.0.0.1")]
        /\ clock \in {0, window_seconds}
        /\ rate_limit_store =
             [ip \in IPs |-> IF ip = "10.0.0.1" THEN [i \in 1..max_requests |-> 0]
                             ELSE <<>>]
  /\ InitRest

NextSap ==
  \/ \E ip \in IPs, form \in Forms :
       RateNow(ip, form, MaxSapRequests)
  \/ \E r \in DOMAIN threads : RateCheck(r)
  \/ \E r \in DOMAIN threads : SapParse(r)
  \/ \E r \in DOMAIN threads : SapUpload(r)
  \/ \E r \in DOMAIN threads : SapStore(r)
  \/ \E r \in DOMAIN threads : SapCall(r)
  \/ \E r \in DOMAIN threads : SapUpdate(r)
  \/ \E r \in DOMAIN threads : SapRespond(r)

SpecSap == InitSap /\ [][NextSap]_vars

\* ------------------------------------------------------------------------
\* The three validate handlers on one input
\* ------------------------------------------------------------------------
Variants == {"app", "validation_service/app", "function_app"}

\* texts without a field label
Unlabelled == {d \in Docs(MaxReqFrags) : \A i \in 1..Len(d) : d[i] \notin Words}

\* what the scorer returns to every handler: nothing when it is not
\* configured or its call failed, or the processed answer
ScorerResults == {NoneObj} \cup {ProcessContent(c) : c \in Contents}

\* the (passed, matched_value) a handler reports, or the error it answers
Reported(p, mv) == <<[passed |-> p, matched_value |-> mv]>>
Failed(code) == <<[error |-> code]>>

InitVariants ==
  /\ pc = "variants"
  /\ request \in {r \in Requests : r.kind = "ok"}
  /\ openai_configured \in BOOLEAN
  /\ delivery_quantity = request.delivery_quantity
  /\ extracted_text \in Unlabelled
  /\ extracted_quantities = extract_quantities_from_text(extracted_text)
  /\ cargo_weight = extract_cargo_discharged_weight(extracted_text)
  /\ match_found = FALSE
  /\ matched_value = Null
  /\ baseline = NoneObj
  /\ agent_instance = NoneObj
  /\ attempt = 0
  /\ calls = 0
  /\ last_call = "none"
  /\ sleeps = <<>>
  /\ ai_info \in {a \in ScorerResults : ~openai_configured => a = NoneObj}
  /\ result_payload = NoneObj
  /\ result_blob = NoneObj
  /\ response = NoneObj
  /\ io_log = <<>>
  /\ threads = [v \in Variants |-> NoneObj]
  /\ SapIdle

\* validation_service/app.py: `if ai_validation.get('matched_value'):`
ServiceOverrideValue(ai, mv) ==
  IF ai # NoneObj /\ ai[1].matched_value \notin {Null, 0} THEN ai[1].matched_value ELSE mv

\* validate of function_app.py from the match to the result: status and
\* matched_quantity of result_payload
RunFunctionApp ==
  /\ threads["function_app"] = NoneObj
  /\ LET p1 == Priority1(cargo_weight, delivery_quantity)
         p2 == IF p1 THEN Null ELSE Priority2(extracted_quantities, delivery_quantity)
         mf == OverrideFound(ai_info, p1 \/ p2 # Null)
         mv == OverrideValue(ai_info, IF p1 THEN cargo_weight ELSE p2)
         res == ResultPayload(mf, mv, delivery_quantity, cargo_weight,
                              extracted_quantities, ai_info)
     IN threads' = [threads EXCEPT
                      !["function_app"] = Reported(res.status = "success",
                                                   res.matched_quantity)]
  /\ UNCHANGED <<pc, request, openai_configured, sapVars, delivery_quantity,
                 textVars, matchVars, agentVars, outVars, io_log>>

\* validate of validation_service/app.py from the scan loop to the result
RunServiceApp ==
  /\ threads["validation_service/app"] = NoneObj
  /\ LET p2 == Priority2(extracted_quantities, delivery_quantity)
         mf == OverrideFound(ai_info, p2 # Null)
         mv == ServiceOverrideValue(ai_info, p2)
     IN threads' = [threads EXCEPT !["validation_service/app"] = Reported(mf, mv)]
  /\ UNCHANGED <<pc, request, openai_configured, sapVars, delivery_quantity,
                 textVars, matchVars, agentVars, outVars, io_log>>

\* validate of src/app.py from the scan loop on: the scorer test raises
\* NameError and the handler answers 500
RunRootApp ==
  /\ threads["app"] = NoneObj
  /\ threads' = [threads EXCEPT !["app"] = Failed(500)]
  /\ UNCHANGED <<pc, request, openai_configured, sapVars, delivery_quantity,
                 textVars, matchVars, agentVars, outVars, io_log>>

NextVariants ==
  \/ RunFunctionApp
  \/ RunServiceApp
  \/ RunRootApp

SpecVariants == InitVariants /\ [][NextVariants]_vars

\* ------------------------------------------------------------------------
\* Properties
\* ------------------------------------------------------------------------
Abs(x) == IF x < 0 THEN 0 - x ELSE x
Elements(q) == {q[i] : i \in 1..Len(q)}
\* the match step has just run; nothing after it changes what it read or
\* the baseline it left
Matched == pc = "agent"

\* positions of the extracted quantities that pass the tolerance test
Hits == {i \in 1..Len(extracted_quantities) :
           Within(extracted_quantities[i], delivery_quantity)}
FieldHit == cargo_weight # Null /\ Within(cargo_weight, delivery_quantity)

\* C1: when the Field Locator returned a value f with |f - entered| < 0.01,
\* the baseline verdict is passed with matched_value = f, whatever the
\* extracted quantities are.
C1_FieldPath ==
  (Matched /\ FieldHit) =>
     (baseline[1].passed /\ baseline[1].matched_value = cargo_weight)

\* C1 witness: the field value wins although the first extracted quantity is
\* another value that is within tolerance too.
C1_Witness ==
  /\ Matched /\ FieldHit
  /\ 1 \in Hits
  /\ extracted_quantities[1] # cargo_weight
  /\ baseline[1].matched_value = cargo_weight

\* C2: when the field value is absent or out of tolerance, the baseline
\* matched_value is the first extracted quantity, in source order, that is
\* within tolerance, and the verdict is passed.
C2_FirstInOrder ==
  (Matched /\ ~FieldHit /\ Hits # {}) =>
     (baseline[1].passed /\ baseline[1].matched_value = extracted_quantities[Min(Hits)])

\* C2 witness: two different quantities are within tolerance, the later one
\* is closer to the entered quantity, and the earlier one is the match.
C2_Witness ==
  /\ Matched /\ ~FieldHit /\ Cardinality(Hits) >= 2
  /\ Abs(extracted_quantities[Max(Hits)] - delivery_quantity)
       < Abs(extracted_quantities[Min(Hits)] - delivery_quantity)
  /\ baseline[1].matched_value = extracted_quantities[Min(Hits)]

\* C3: when neither the field value nor any extracted quantity is within
\* tolerance the baseline verdict is not passed with matched_value null; a
\* verdict that is not passed never carries a matched value, in the baseline
\* and in the result.
C3_NoMatch ==
  /\ Matched =>
       /\ (~FieldHit /\ Hits = {}) =>
             (~baseline[1].passed /\ baseline[1].matched_value = Null)
       /\ ~baseline[1].passed => baseline[1].matched_value = Null
  /\ (result_payload # NoneObj /\ result_payload[1].status = "error") =>
       result_payload[1].matched_quantity = Null

\* C3 witness: a field value and extracted quantities exist, none of them is
\* within tolerance, and the baseline is not passed.
C3_Witness ==
  /\ Matched /\ cargo_weight # Null /\ Len(extracted_quantities) >= 2
  /\ ~FieldHit /\ Hits = {}
  /\ ~baseline[1].passed /\ baseline[1].matched_value = Null

\* a result was built after the scorer returned a result / returned None
Built == result_payload # NoneObj
Scored == Built /\ ai_info # NoneObj
ScorerFailed == Built /\ calls > 0 /\ ai_info = NoneObj
Passed == result_payload[1].status = "success"

\* C4 as stated: whenever the scorer call succeeds, the final passed equals
\* the scorer's is_valid and the final matched value equals the scorer's
\* matched_value, null and 0 included.
C4_Total ==
  Scored =>
     /\ Passed = ai_info[1].is_valid
     /\ result_payload[1].matched_quantity = ai_info[1].matched_value

\* C4: whenever the scorer call succeeds in function_app.validate, the final
\* passed equals the scorer's is_valid; the final matched value is null when
\* is_valid is false, the scorer's matched_value when is_valid is true and
\* that value is not null (0 included), and the baseline's matched_value
\* when is_valid is true and the scorer's matched_value is null.
C4_Override ==
  Scored =>
     /\ Passed = ai_info[1].is_valid
     /\ result_payload[1].matched_quantity =
          IF ~ai_info[1].is_valid THEN Null
          ELSE IF ai_info[1].matched_value # Null THEN ai_info[1].matched_value
          ELSE baseline[1].matched_value

\* C4 witness: the scorer succeeded with is_valid = true and a null
\* matched_value, and the baseline's matched value is the final one.
C4_Witness ==
  /\ Scored /\ ai_info[1].is_valid /\ ai_info[1].matched_value = Null
  /\ baseline[1].matched_value # Null
  /\ result_payload[1].matched_quantity = baseline[1].matched_value

\* C5: whenever the scorer call ends in failure, the final passed and
\* matched value are the baseline's and the result records no scorer result.
C5_Degraded ==
  ScorerFailed =>
     /\ Passed = baseline[1].passed
     /\ result_payload[1].matched_quantity = baseline[1].matched_value
     /\ result_payload[1].ai_agent = NoneObj

\* C5 witness: two rate-limit failures, then another failure; the baseline
\* had passed and the request is answered with the baseline's verdict.
C5_Witness ==
  /\ ScorerFailed /\ calls = 3 /\ sleeps = <<15, 30>> /\ last_call = "error"
  /\ baseline[1].passed
  /\ response # NoneObj /\ response[1].code = 200 /\ response[1].status = "success"

\* C6: the create call is made at most 3 times; a call after the first is
\* made only directly after a rate-limit failure and after a wait of 15
\* (first retry) or 30 (second retry); another failure, a third rate-limit
\* failure and a success end the attempts without a wait.
C6_RetryPolicy ==
  /\ [](calls <= 3 /\ sleeps \in {<<>>, <<15>>, <<15, 30>>})
  /\ [][ /\ sleeps' # sleeps => calls' = calls + 1
         /\ calls' = calls + 1 =>
              /\ calls > 0 => (last_call = "rate_limit" /\ Len(sleeps) = calls)
              /\ IF last_call' = "rate_limit" /\ calls' < 3
                 THEN pc' = "call" /\ Len(sleeps') = calls'
                 ELSE pc' # "call" /\ sleeps' = sleeps
         /\ calls' # calls => calls' = calls + 1 ]_vars

\* C6 witness: three rate-limit failures with waits of 15 and 30 between
\* them; the third ends the attempts.
C6_Witness ==
  calls = 3 /\ sleeps = <<15, 30>> /\ last_call = "rate_limit" /\ pc = "override"

\* C7 as stated: a request whose document text was obtained ends with a
\* verdict response, never with an abort error.
C7_AlwaysVerdict == response # NoneObj => response[1].code = 200

\* C7: for every sequence of scorer outcomes ValidationAgent.validate ends
\* after at most 3 calls without an exception reaching the handler: no
\* scorer step answers the request, and the handler goes on to build its
\* result; a request whose document text was obtained ends with a verdict
\* response unless writing the result document fails.
C7_NeverFatal ==
  /\ [](calls <= 3)
  /\ [][(pc \in {"agent", "call", "override"}) => (response' = response)]_vars
  /\ (pc = "call") ~> Built
  /\ (pc = "agent") ~>
        (response # NoneObj /\
           (response[1].code = 200 \/ response[1].remarks = "write_result_to_blob failed"))

\* C7 witness: the scorer failed three times and the request is answered
\* with a verdict.
C7_Witness ==
  /\ calls = 3 /\ last_call = "rate_limit" /\ ai_info = NoneObj
  /\ response # NoneObj /\ response[1].code = 200

\* C8: in every result a non-null matched value is an element of
\* extracted_quantities or the matched_value the scorer returned.
C8_Attribution ==
  (Built /\ result_payload[1].matched_quantity # Null) =>
     \/ result_payload[1].matched_quantity \in Elements(extracted_quantities)
     \/ ai_info # NoneObj /\ result_payload[1].matched_quantity = ai_info[1].matched_value

\* |a - b| < 0.01 in exact arithmetic on the doubles of a and b
ExactWithin(a, b) ==
  LET x == ToDouble(a)
      y == ToDouble(b)
      e == IF x.m = <<>> THEN y.e ELSE IF y.m = <<>> THEN x.e ELSE Min({x.e, y.e})
      xa == ShiftLeft(x.m, x.e - e)
      xb == ShiftLeft(y.m, y.e - e)
      d == IF BigLess(xa, xb) THEN BigSub(xb, xa) ELSE BigSub(xa, xb)
  IN BigLess(BigMul(d, 100), ShiftLeft(<<1>>, 0 - e))

\* C9: a candidate matches the entered quantity iff their difference is
\* strictly below 0.01, on the field path and on the fallback scan alike: the
\* baseline passes iff the field value or some extracted quantity is within
\* 0.01, and the matched value, the field value when it is within 0.01 and
\* else the first extracted quantity that is, is within 0.01.
C9_StrictTolerance ==
  Matched =>
     LET fieldOk == cargo_weight # Null /\ ExactWithin(cargo_weight, delivery_quantity)
         scanOk == {i \in 1..Len(extracted_quantities) :
                      ExactWithin(extracted_quantities[i], delivery_quantity)}
     IN /\ baseline[1].passed = (fieldOk \/ scanOk # {})
        /\ fieldOk => baseline[1].matched_value = cargo_weight
        /\ (~fieldOk /\ scanOk # {}) =>
              baseline[1].matched_value = extracted_quantities[Min(scanOk)]

\* C9 witness: the only candidates differ from the entered quantity by
\* exactly 0.01 or more, one of them by exactly 0.01, and nothing matches.
C9_Witness ==
  /\ Matched /\ delivery_quantity = 0
  /\ Scale \div 100 \in Elements(extracted_quantities)
  /\ cargo_weight # Null
  /\ ~baseline[1].passed

\* patterns that match somewhere in t / whose capture parses as a number
Matching(t) == {i \in 1..Len(patterns) : Search(patterns[i], t) # <<>>}
Parsing(t) == {i \in 1..Len(patterns) : PatternValue(i, t) # Null}
Located == pc = "match"

C11_PositiveOverride ==
  (Scored /\ ~baseline[1].passed /\ ai_info[1].is_valid
     /\ ai_info[1].matched_value # Null) =>
        /\ Passed
        /\ result_payload[1].matched_quantity = ai_info[1].matched_value

\* C11 witness: no candidate of the document matched, the scorer answered
\* is_valid = true with 42, and the request is answered success with 42.
C11_Witness ==
  /\ Scored /\ ~baseline[1].passed /\ extracted_quantities # <<>>
  /\ ai_info[1].is_valid /\ ai_info[1].matched_value = 42 * Scale
  /\ response # NoneObj /\ response[1].code = 200
  /\ response[1].payload.status = "success"
  /\ response[1].payload.matched_quantity = 42 * Scale

\* C12: whenever the result of a fully processed request is not passed, its
\* matched quantity is null and its remarks list all extracted quantities,
\* whether or not the Field Locator found a field value.
C12_RemarksListAll ==
  (Built /\ ~Passed) =>
     /\ result_payload[1].matched_quantity = Null
     /\ result_payload[1].remarks # NoneObj
     /\ result_payload[1].remarks[2] = extracted_quantities

\* number of calls of a collaborator
Count(log, name) == Cardinality({i \in 1..Len(log) : log[i] = name})
InputError == request.kind # "ok"

C14_CollaboratorFatal ==
  /\ Count(io_log, "read_blob_content") <= 1
  /\ Count(io_log, "analyze_document") <= 1
  /\ (pc = "done" /\ io_log = <<"read_blob_content">>) =>
        response = ErrorResponse(500, "read_blob_content failed")
  /\ (pc = "done" /\ io_log = <<"read_blob_content", "analyze_document">>) =>
        response = ErrorResponse(500, "analyze_document failed")
  /\ (response # NoneObj /\ response[1].code = 500 /\ response[1].remarks \in
        {"read_blob_content failed", "analyze_document failed"}) =>
        /\ pc = "done"
        /\ Len(io_log) <= 2
        /\ calls = 0 /\ agent_instance = NoneObj
        /\ result_payload = NoneObj /\ result_blob = NoneObj

\* C14 witness: the blob was read, the analysis failed, and the request
\* was answered 500 with the failure's message.
C14_Witness ==
  /\ pc = "done"
  /\ io_log = <<"read_blob_content", "analyze_document">>
  /\ response # NoneObj /\ response[1].code = 500
  /\ response[1].remarks = "analyze_document failed"

\* C15: in every result, status is success iff the final verdict passed; a
\* success has null remarks; an error has a null matched quantity and
\* non-null remarks; a result that was written is the one returned, with
\* HTTP 200, whether it passed or not.
C15_ResultConsistent ==
  /\ Built =>
       /\ Passed = match_found
       /\ result_payload[1].status \in {"success", "error"}
       /\ Passed => result_payload[1].remarks = NoneObj
       /\ ~Passed =>
            (result_payload[1].matched_quantity = Null
               /\ result_payload[1].remarks # NoneObj)
  /\ result_blob # NoneObj => result_blob = result_payload
  /\ (pc = "done" /\ result_blob # NoneObj) =>
       /\ response # NoneObj /\ response[1].code = 200
       /\ response[1].payload = result_payload[1]
       /\ response[1].status = result_payload[1].status
  /\ (response # NoneObj /\ response[1].code = 200) => result_blob = result_payload

\* C15 witness: nothing in the document matched, no field was found, and the
\* request was answered 200 with the persisted error result.
C15_Witness ==
  /\ pc = "done" /\ Built /\ ~Passed /\ ~baseline[1].passed
  /\ cargo_weight = Null /\ extracted_quantities # <<>>
  /\ result_blob = result_payload
  /\ response # NoneObj /\ response[1].code = 200
  /\ response[1].payload.status = "error"
  /\ response[1].payload.matched_quantity = Null
  /\ response[1].payload.remarks # NoneObj

\* the result request r gets when it runs alone: from its own text, its own
\* entered quantity and what the scorer returned to it
AloneResult(r) ==
  LET th == threads[r]
      qs == extract_quantities_from_text(th.text)
      cw == extract_cargo_discharged_weight(th.text)
      p1 == Priority1(cw, th.delivery_quantity)
      p2 == IF p1 THEN Null ELSE Priority2(qs, th.delivery_quantity)
      ai == IF th.returned = NoneObj THEN NoneObj ELSE ProcessContent(th.returned[1])
  IN ResultPayload(OverrideFound(ai, p1 \/ p2 # Null),
                   OverrideValue(ai, IF p1 THEN cw ELSE p2),
                   th.delivery_quantity, cw, qs, ai)
Answered(r) == threads[r].response # NoneObj /\ threads[r].response[1].code = 200

\* C16: with two requests running in any interleaving and sharing the agent,
\* each request that is answered gets the result it gets when run alone.
C16_Independent ==
  \A r \in Threads :
     Answered(r) => threads[r].response[1].payload = AloneResult(r)

\* C16 witness: request 1 was answered with its own scorer-made success
\* while request 2, on another document, holds a scorer response that says
\* is_valid = false and has not processed it yet.
C16_Witness ==
  /\ Answered(1)
  /\ threads[1].response[1].payload.status = "success"
  /\ threads[1].response[1].payload.ai_agent # NoneObj
  /\ threads[2].pc = "process"
  /\ threads[2].text # threads[1].text
  /\ threads[2].returned # threads[1].returned
  /\ threads[2].returned[1].is_valid = "false"

\* C17: the tokenizer returns one quantity for every match of its number
\* grammar that parses as a number, in the order in which the matches occur
\* in the text and with equal values kept as often as they occur; a match
\* that does not parse is left out and the call still returns.
Tokenized == pc \in {"locate", "match", "retokenized"}
Parsed(m) == ParseFloat(Without(m, {",", " "}))
Kept(ms) == {i \in 1..Len(ms) : Parsed(ms[i]) # Null}
KthKept(ms, k) ==
  CHOOSE i \in Kept(ms) : Cardinality({j \in Kept(ms) : j < i}) = k - 1
C17_OrderAndDuplicates ==
  Tokenized =>
    LET ms == FindAll(extracted_text, 1)
    IN /\ Len(extracted_quantities) = Cardinality(Kept(ms))
       /\ \A k \in 1..Len(extracted_quantities) :
            extracted_quantities[k] = Parsed(ms[KthKept(ms, k)])
\* two equal quantities were returned and a match that does not parse was
\* left out
C17_Witness ==
  /\ Tokenized
  /\ \E i, j \in 1..Len(extracted_quantities) :
       i < j /\ extracted_quantities[i] = extracted_quantities[j]
  /\ Len(FindAll(extracted_text, 1)) > Len(extracted_quantities)

C19_SkippedSilently ==
  (~openai_configured /\ baseline # NoneObj) =>
     /\ calls = 0
     /\ (response # NoneObj
           /\ response # ErrorResponse(500, "write_result_to_blob failed")) =>
          /\ response[1].code = 200
          /\ (response[1].status = "success") = baseline[1].passed

\* C20: the value the field locator returns is the value of one token of
\* the tokenizer grammar, so whenever it returns a value the tokenizer
\* returns that value for the same text.
C20_OneToken ==
  Located =>
    \/ cargo_weight = Null
    \/ \E i \in 1..Len(extracted_quantities) : extracted_quantities[i] = cargo_weight

\* C22: at every instant and for every client IP, at most max_requests of
\* the admitted requests of that IP were admitted within the window_seconds
\* before the instant.
Admitted(ip, from, to) ==
  {r \in DOMAIN threads :
     /\ threads[r].ip = ip
     /\ threads[r].admitted_at # Null
     /\ threads[r].admitted_at > from
     /\ threads[r].admitted_at <= to}
C22_RateBound ==
  \A ip \in IPs :
    Cardinality(Admitted(ip, clock - window_seconds, clock)) <= max_requests

\* C21: a request of simulate_sap stores its record in SAP_DB before it
\* uploads the PDF, so the record is there whenever the upload has been
\* called, also when the upload failed; and the validation service is
\* called only after the upload.
Position(seq, x) == CHOOSE i \in 1..Len(seq) : seq[i] = x
C21_StoreBeforeUpload ==
  \A r \in DOMAIN threads :
    LET st == threads[r].steps
    IN /\ Count(st, "upload_pdf_to_blob") > 0 => r \in DOMAIN SAP_DB
       /\ Count(st, "call_validation_service") > 0 =>
            /\ Count(st, "upload_pdf_to_blob") > 0
            /\ Position(st, "upload_pdf_to_blob") < Position(st, "call_validation_service")

\* C23: a request that rate_limit rejects with 429 records no timestamp:
\* the list of its IP becomes the recent timestamps it held, SAP_DB and
\* every other request are left as they were; and a rejected request never
\* ran the handler: it has no record_id, no record, called no collaborator.
Rejected(r) == threads[r].response = <<[code |-> 429]>>
C23_RejectedInert ==
  \A r \in DOMAIN threads :
    Rejected(r) =>
      /\ threads[r].pc = "done"
      /\ threads[r].admitted_at = Null
      /\ threads[r].record_id = Null
      /\ threads[r].steps = <<>>
      /\ r \notin DOMAIN SAP_DB
C23_RejectionFrame ==
  [][\A r \in DOMAIN threads :
       (~Rejected(r) /\ threads'[r].response = <<[code |-> 429]>>) =>
         /\ rate_limit_store' =
              [rate_limit_store EXCEPT ![threads[r].ip] = Recent(@, threads[r].now)]
         /\ SAP_DB' = SAP_DB
         /\ io_log' = io_log
         /\ \A o \in DOMAIN threads : o # r => threads'[o] = threads[o]]_vars
C23_NoEffect == []C23_RejectedInert /\ C23_RejectionFrame
\* a request was rejected while another one has stored its record
C23_Witness ==
  /\ \E r \in DOMAIN threads : Rejected(r)
  /\ DOMAIN SAP_DB # {}

\* C24: a record enters SAP_DB with validation_status 'pending'; its status
\* changes only from 'pending', to 'success' when the validation response
\* the request received has status 'success' and to 'error' for every other
\* response it received; no record is ever removed.
C24_StatusOfResponse ==
  \A i \in DOMAIN SAP_DB :
    LET rec == SAP_DB[i]
    IN /\ rec.validation_status \in {"pending", "success", "error"}
       /\ rec.validation_status = "pending" => rec.validation_response = NoneObj
       /\ rec.validation_status # "pending" =>
            /\ rec.validation_response = threads[i].validation_response
            /\ rec.validation_response # NoneObj
            /\ (rec.validation_status = "success") =
                 (rec.validation_response[1].status = "success")
C24_StatusSteps ==
  [][/\ DOMAIN SAP_DB \subseteq DOMAIN SAP_DB'
     /\ \A i \in DOMAIN SAP_DB' \ DOMAIN SAP_DB :
          SAP_DB'[i].validation_status = "pending"
     /\ \A i \in DOMAIN SAP_DB :
          SAP_DB'[i].validation_status # SAP_DB[i].validation_status =>
            /\ SAP_DB[i].validation_status = "pending"
            /\ SAP_DB'[i].validation_status \in {"success", "error"}]_vars
C24_Lifecycle == []C24_StatusOfResponse /\ C24_StatusSteps
\* one record became 'success' and another became 'error' on a response
\* without a status
C24_Witness ==
  \E i, j \in DOMAIN SAP_DB :
    /\ SAP_DB[i].validation_status = "success"
    /\ SAP_DB[j].validation_status = "error"
    /\ SAP_DB[j].validation_response[1].status = "nostatus"

\* C25: once a request of simulate_sap has been answered, the record it
\* stored is no longer 'pending'.
C25_NoPendingLeft ==
  \A r \in DOMAIN threads :
    (threads[r].pc = "done" /\ r \in DOMAIN SAP_DB) =>
       SAP_DB[r].validation_status # "pending"

\* C26: every result of validate with status 'success' has a matched
\* quantity that is not null.
C26_PassedNamesValue ==
  (result_payload # NoneObj /\ result_payload[1].status = "success") =>
     result_payload[1].matched_quantity # Null

\* C27: on the same unlabelled text, entered quantity and scorer result,
\* the handlers that have answered report the same passed and the same
\* matched value.
C27_SameVerdict ==
  \A v, w \in Variants :
    (threads[v] # NoneObj /\ threads[w] # NoneObj) => threads[v] = threads[w]

\* C28: when the capture of the highest-priority matching pattern does not
\* parse as a number, extract_cargo_discharged_weight still returns: the
\* number of the next pattern in list order whose capture parses, and null
\* only when no pattern has a capture that parses.
Unparsed(t) == Matching(t) # {} /\ PatternValue(Min(Matching(t)), t) = Null
C28_FallThrough ==
  (Located /\ Unparsed(normalised(extracted_text))) =>
     LET t == normalised(extracted_text)
         later == {i \in Parsing(t) : i > Min(Matching(t))}
     IN /\ (cargo_weight = Null) = (later = {})
        /\ later # {} => cargo_weight = PatternValue(Min(later), t)
\* the capture of the first matching pattern did not parse and the number
\* of a later pattern was returned
C28_Witness ==
  /\ Located
  /\ Unparsed(normalised(extracted_text))
  /\ cargo_weight # Null

\* C29: validate writes {record_id}/processed/result.json at most once; a
\* verdict response (HTTP 200) is returned only after that one write has
\* succeeded, and its status, matched_quantity and remarks are those of the
\* document written; when the write fails nothing is persisted by it and the
\* response is the HTTP 500 error, never a verdict.
Writes == Count(io_log, "write_result_to_blob")
Verdict(doc) == <<doc.status, doc.matched_quantity, doc.remarks>>
C29_PersistBeforeRespond ==
  /\ Writes <= 1
  /\ result_blob # NoneObj => Writes = 1
  /\ (response # NoneObj /\ response[1].code = 200) =>
        /\ Writes = 1
        /\ result_blob # NoneObj
        /\ Verdict(response[1].payload) = Verdict(result_blob[1])
        /\ response[1].status = result_blob[1].status
  /\ (Writes = 1 /\ result_blob = NoneObj) =>
        response = ErrorResponse(500, "write_result_to_blob failed")
\* a verdict was returned after the document was written
C29_Witness ==
  /\ response # NoneObj
  /\ response[1].code = 200
  /\ Writes = 1
  /\ result_blob # NoneObj
  /\ Verdict(response[1].payload) = Verdict(result_blob[1])
  /\ io_log[Len(io_log)] = "write_result_to_blob"

\* C30: however the get_validation_agent calls of concurrent requests
\* interleave, a ValidationAgent is constructed only while no instance
\* exists (so at most one is ever constructed and every call returns it),
\* and an instance, once there, keeps its enabled flag.
Constructs(r) ==
  threads[r].pc = "agent_create" /\ threads'[r].pc = "agent_return"
C30_Singleton ==
  [][/\ \A r \in Threads : Constructs(r) => agent_instance = NoneObj
     /\ agent_instance # NoneObj =>
           /\ agent_instance' # NoneObj
           /\ agent_instance'[1].enabled = agent_instance[1].enabled]_vars
====
